---- MODULE Spec2Model ----
\* Retrieval engine of document-indexer: the chunker (chunker.js), the index
\* builder and its file (indexer.js), the similarity search (searcher.js),
\* the embedding pipeline handle (embedder.js) and the chat session (chat.js).
\* Strings are sequences of one-character strings; JavaScript's 0-based
\* offsets are kept, so text[pos] in the source is t[pos + 1] here.
EXTENDS Integers, Sequences, FiniteSets, TLC

\* ---------------------------------------------------------------- bounds

MaxLen == 6
MaxChunkSize == 3
MaxDocs == 3
MaxFileDocs == 2
MaxTopK == 3

\* ---------------------------------------------------------------- state

VARIABLES
    text,            \* chunkText: the argument text
    chunkSize,       \* chunkText: the argument chunkSize
    overlap,         \* chunkText: the argument overlap
    normalizedText,  \* chunkText: text after whitespace normalisation
    startIndex,      \* chunkText: the loop cursor
    endIndex,        \* chunkText: end offset computed by the last iteration
    chunks,          \* chunkText: the chunks pushed so far
    spans,           \* history: <<startIndex, endIndex>> of every pushed chunk
    iterations,      \* history: parity of the number of loop iterations run
    cpc,             \* chunkText: "call", "loop", "returned" or "threw"
    inChunks,        \* createIndex: the argument chunks
    inEmbeddings,    \* createIndex: the argument embeddings (a vector or Null each)
    file,            \* the index file on disk (NoFile when there is none)
    dirExists,       \* whether the directory of the index file exists
    dirCreated,      \* history: whether saveIndex made that directory
    index,           \* the index object built or loaded (NoIndex before that)
    savedIndex,      \* history: the index saveIndex was given (NoIndex before that)
    ipc,             \* "call", "built", "saved", "loaded" or "threw"
    search,          \* searchIndex: the arguments of the last call
    results,         \* searchIndex: results of the last call
    stats,           \* searchIndex: stats of the last call
    spc,             \* searchIndex: "idle", "returned" or "threw"
    embeddingPipeline,  \* embedder: the module's pipeline handle (NoPipeline for null)
    started,         \* history: the number of pipeline() calls made
    constructed,     \* history: the number of pipelines pipeline() has built
    pending,         \* per caller: the pipeline() call it awaits (0 for none)
    got,             \* per caller: the handle getEmbeddingPipeline gave it
    epc,             \* per caller: "idle", "awaiting", "returned" or "threw"
    ragMode,         \* chat: ragMode
    threshold,       \* chat: threshold, in percent
    conversationHistory,  \* chat: conversationHistory
    answeredBy,      \* chat: what answered the last input: "rag", "direct" or "none"
    chpc             \* chat: "start", "prompt" or "quit"

chunkVars == <<text, chunkSize, overlap, normalizedText, startIndex, endIndex,
               chunks, spans, iterations, cpc>>

indexVars == <<inChunks, inEmbeddings, file, dirExists, dirCreated, index, savedIndex, ipc,
               search, results, stats, spc>>

embedVars == <<embeddingPipeline, started, constructed, pending, got, epc>>

chatVars == <<ragMode, threshold, conversationHistory, answeredBy, chpc>>

vars == <<chunkVars, indexVars, embedVars, chatVars>>

\* ---------------------------------------------------------------- strings

Chars == {"a", " ", "\t"}

IsSpace(c) == c \in {" ", "\t"}

Min(a, b) == IF a < b THEN a ELSE b

RECURSIVE Texts(_)
Texts(n) ==
    IF n = 0 THEN {<<>>}
    ELSE LET shorter == Texts(n - 1)
         IN  shorter \cup {Append(t, c) : t \in {s \in shorter : Len(s) = n - 1}, c \in Chars}

\* text.replace(/\s+/g, ' ')
RECURSIVE CollapseWhitespace(_)
CollapseWhitespace(t) ==
    IF t = <<>> THEN <<>>
    ELSE IF IsSpace(Head(t))
         THEN IF Tail(t) # <<>> /\ IsSpace(Head(Tail(t)))
              THEN CollapseWhitespace(Tail(t))
              ELSE <<" ">> \o CollapseWhitespace(Tail(t))
         ELSE <<Head(t)>> \o CollapseWhitespace(Tail(t))

RECURSIVE TrimStart(_)
TrimStart(t) ==
    IF t # <<>> /\ IsSpace(Head(t)) THEN TrimStart(Tail(t)) ELSE t

RECURSIVE TrimEnd(_)
TrimEnd(t) ==
    IF t # <<>> /\ IsSpace(t[Len(t)]) THEN TrimEnd(SubSeq(t, 1, Len(t) - 1)) ELSE t

\* String.prototype.trim
Trim(t) == TrimEnd(TrimStart(t))

\* text.replace(/\s+/g, ' ').trim()
Normalize(t) == Trim(CollapseWhitespace(t))

\* String.prototype.slice(from, to) for from >= 0 and to >= 0
Slice(t, from, to) ==
    IF Min(to, Len(t)) <= from THEN <<>> ELSE SubSeq(t, from + 1, Min(to, Len(t)))

\* text[pos]: undefined outside the string
CharAt(t, pos) == IF 0 <= pos /\ pos < Len(t) THEN t[pos + 1] ELSE "undefined"

\* ---------------------------------------------------------------- chunker.js

\* findWordBoundary, the backward while loop
RECURSIVE ScanBackward(_, _)
ScanBackward(t, pos) ==
    IF pos > 0 /\ CharAt(t, pos) # " " THEN ScanBackward(t, pos - 1) ELSE pos

\* findWordBoundary, the forward while loop
RECURSIVE ScanForward(_, _)
ScanForward(t, pos) ==
    IF pos < Len(t) /\ CharAt(t, pos) # " " THEN ScanForward(t, pos + 1) ELSE pos

BackwardBoundary(t, position) ==
    LET pos == ScanBackward(t, position)
    IN  IF pos > 0 THEN pos ELSE position

ForwardBoundary(t, position) ==
    LET pos == ScanForward(t, position)
    IN  IF pos < Len(t) THEN pos + 1 ELSE Len(t)

findWordBoundary(t, position, direction) ==
    IF position >= Len(t) THEN Len(t)
    ELSE IF direction = "backward" THEN BackwardBoundary(t, position)
         ELSE ForwardBoundary(t, position)

\* ChunkEnd with the word boundary searched forward of the candidate end
ChunkEndSearchingForward(t, start, size) ==
    IF start + size < Len(t)
    THEN findWordBoundary(t, start + size, "forward")
    ELSE Len(t)

\* the end offset of the chunk that starts at start
ChunkEnd(t, start, size) ==
    IF start + size < Len(t)
    THEN findWordBoundary(t, start + size, "backward")
    ELSE Len(t)

\* the cursor after a chunk [start, end)
NextStart(t, start, end, ov) ==
    LET newStart == end - ov
    IN  IF newStart > start THEN findWordBoundary(t, newStart, "forward") ELSE end

\* ---------------------------------------------------------------- indexer.js

\* JavaScript's null, unequal to every vector and every score
Null == <<"null">>

NoFile == [none |-> "file"]

NoIndex == [none |-> "index"]

NoSearch == [none |-> "search"]

\* embedder.js
MODEL_NAME == "Xenova/all-MiniLM-L6-v2"

getModelName == MODEL_NAME

getEmbeddingDimension == 384

\* The embedding vectors of the model. Their norms are perfect squares, so
\* Math.sqrt and the division of cosineSimilarity are exact on them and the
\* exact scores below order and compare as the floating-point scores do.
Vectors == {<<1, 0>>, <<0, 1>>, <<0 - 1, 0>>, <<0, 0>>, <<3, 4>>}

\* n zeros
RECURSIVE Zeros(_)
Zeros(n) ==
    IF n = 0 THEN <<>>
    ELSE IF n = 1 THEN <<0>>
    ELSE Zeros(n \div 2) \o Zeros(n - (n \div 2))

\* the unit vector along axis a, of the dimension of the embedding model
UnitVector(a) == Zeros(a - 1) \o <<1>> \o Zeros(getEmbeddingDimension - a)

\* embedding lists as generateEmbeddings makes them: vectors of the model's
\* dimension, null where a chunk failed
ModelEmbeddings == {<<UnitVector(1), UnitVector(2)>>, <<UnitVector(2), Null>>}

RECURSIVE SeqsUpTo(_, _)
SeqsUpTo(S, n) ==
    IF n = 0 THEN {<<>>}
    ELSE LET shorter == SeqsUpTo(S, n - 1)
         IN  shorter \cup {Append(q, x) : q \in {r \in shorter : Len(r) = n - 1}, x \in S}

\* the chunk chunkDocument makes at position i of a document
ChunkAt(i) == [content |-> i, source |-> [filename |-> "doc.txt", chunkIndex |-> i - 1]]

\* CollectValid with the input position as the id
RECURSIVE CollectValidPositionAsId(_, _, _, _)
CollectValidPositionAsId(cs, es, i, valid) ==
    IF i > Len(cs) THEN valid
    ELSE IF es[i] # Null
         THEN CollectValidPositionAsId(cs, es, i + 1,
                  Append(valid, [id |-> i - 1,
                                 content |-> cs[i].content,
                                 embedding |-> es[i],
                                 source |-> cs[i].source]))
         ELSE CollectValidPositionAsId(cs, es, i + 1, valid)

\* CollectValid with each valid document put in front of the earlier ones
RECURSIVE CollectValidNewestFirst(_, _, _, _)
CollectValidNewestFirst(cs, es, i, valid) ==
    IF i > Len(cs) THEN valid
    ELSE IF es[i] # Null
         THEN CollectValidNewestFirst(cs, es, i + 1,
                  <<[id |-> Len(valid),
                     content |-> cs[i].content,
                     embedding |-> es[i],
                     source |-> cs[i].source]>> \o valid)
         ELSE CollectValidNewestFirst(cs, es, i + 1, valid)

\* the for loop of createIndex over positions i..Len(cs): valid is validDocuments
RECURSIVE CollectValid(_, _, _, _)
CollectValid(cs, es, i, valid) ==
    IF i > Len(cs) THEN valid
    ELSE IF es[i] # Null
         THEN CollectValid(cs, es, i + 1,
                  Append(valid, [id |-> Len(valid),
                                 content |-> cs[i].content,
                                 embedding |-> es[i],
                                 source |-> cs[i].source]))
         ELSE CollectValid(cs, es, i + 1, valid)

BuildIndex(cs, es, size, ov) ==
    LET validDocuments == CollectValid(cs, es, 1, <<>>)
    IN  [metadata |-> [created |-> "now",
                       model |-> getModelName,
                       embeddingDimension |-> getEmbeddingDimension,
                       totalChunks |-> Len(validDocuments),
                       chunkSize |-> size,
                       overlap |-> ov],
         documents |-> validDocuments]

\* the default chunkSize and overlap of createIndex's options
DefaultChunkSize == 500

DefaultOverlap == 50

createIndex ==
    /\ ipc = "call"
    /\ file = NoFile
    /\ IF Len(inChunks) # Len(inEmbeddings)
       THEN /\ ipc' = "threw"
            /\ UNCHANGED index
       ELSE /\ ipc' = "built"
            /\ index' = BuildIndex(inChunks, inEmbeddings, DefaultChunkSize, DefaultOverlap)
    /\ UNCHANGED <<inChunks, inEmbeddings, file, dirExists, dirCreated, savedIndex>>
    /\ UNCHANGED <<search, results, stats, spc>>
    /\ UNCHANGED <<chunkVars, embedVars, chatVars>>

\* ---------------------------------------------------------------- JSON

\* A JSON text is modelled by its value tree with every leaf as its token:
\* a number as the characters JSON.stringify writes, a string as a quoted
\* token. Objects keep their keys and arrays their order.

DigitChars == <<"0", "1", "2", "3", "4", "5", "6", "7", "8", "9">>

RECURSIVE Digits(_)
Digits(n) ==
    IF n < 10 THEN <<DigitChars[n + 1]>>
    ELSE Digits(n \div 10) \o <<DigitChars[(n % 10) + 1]>>

\* NumberText without the sign
NumberTextUnsigned(n) == IF n < 0 THEN Digits(0 - n) ELSE Digits(n)

\* JSON.stringify of an integer
NumberText(n) == IF n < 0 THEN <<"-">> \o Digits(0 - n) ELSE Digits(n)

DigitValue(c) == CHOOSE d \in 0..9 : DigitChars[d + 1] = c

RECURSIVE DigitsValue(_)
DigitsValue(t) ==
    IF Len(t) = 1 THEN DigitValue(t[1])
    ELSE 10 * DigitsValue(SubSeq(t, 1, Len(t) - 1)) + DigitValue(t[Len(t)])

\* JSON.parse of a number token
TextNumber(t) == IF Head(t) = "-" THEN 0 - DigitsValue(Tail(t)) ELSE DigitsValue(t)

StringText(x) == [quoted |-> x]

TextString(t) == t.quoted

StringifyMetadata(m) ==
    [created |-> StringText(m.created),
     model |-> StringText(m.model),
     embeddingDimension |-> NumberText(m.embeddingDimension),
     totalChunks |-> NumberText(m.totalChunks),
     chunkSize |-> NumberText(m.chunkSize),
     overlap |-> NumberText(m.overlap)]

StringifyDocument(d) ==
    [id |-> NumberText(d.id),
     content |-> StringText(d.content),
     embedding |-> [j \in 1..Len(d.embedding) |-> NumberText(d.embedding[j])],
     source |-> [filename |-> StringText(d.source.filename),
                 chunkIndex |-> NumberText(d.source.chunkIndex)]]

\* JSON.stringify(index, null, 2)
Stringify(ix) ==
    [k \in DOMAIN ix |->
        IF k = "metadata" THEN StringifyMetadata(ix[k])
        ELSE [i \in 1..Len(ix[k]) |-> StringifyDocument(ix[k][i])]]

ParseMetadata(m) ==
    [created |-> TextString(m.created),
     model |-> TextString(m.model),
     embeddingDimension |-> TextNumber(m.embeddingDimension),
     totalChunks |-> TextNumber(m.totalChunks),
     chunkSize |-> TextNumber(m.chunkSize),
     overlap |-> TextNumber(m.overlap)]

ParseDocument(d) ==
    [id |-> TextNumber(d.id),
     content |-> TextString(d.content),
     embedding |-> [j \in 1..Len(d.embedding) |-> TextNumber(d.embedding[j])],
     source |-> [filename |-> TextString(d.source.filename),
                 chunkIndex |-> TextNumber(d.source.chunkIndex)]]

\* JSON.parse(content)
Parse(f) ==
    [k \in DOMAIN f |->
        IF k = "metadata" THEN ParseMetadata(f[k])
        ELSE [i \in 1..Len(f[k]) |-> ParseDocument(f[k][i])]]

\* saveIndex: make the directory when it is missing, then write the file
saveIndex ==
    /\ ipc = "built"
    /\ dirExists' = TRUE
    /\ dirCreated' = ~dirExists
    /\ file' = Stringify(index)
    /\ savedIndex' = index
    /\ ipc' = "saved"
    /\ UNCHANGED <<inChunks, inEmbeddings, index, search, results, stats, spc>>
    /\ UNCHANGED <<chunkVars, embedVars, chatVars>>

\* what loadIndex returns for the file f: it throws when there is no file or
\* when the parsed file has no metadata or no documents
LoadThrows(f) ==
    \/ f = NoFile
    \/ ~("metadata" \in DOMAIN Parse(f) /\ "documents" \in DOMAIN Parse(f))

\* loadIndex of the file on disk, by the chat or after the indexing run
loadIndex ==
    /\ ipc \in {"call", "saved"}
    /\ file # NoFile
    /\ IF LoadThrows(file)
       THEN /\ ipc' = "threw"
            /\ UNCHANGED index
       ELSE /\ ipc' = "loaded"
            /\ index' = Parse(file)
    /\ UNCHANGED <<inChunks, inEmbeddings, file, dirExists, dirCreated, savedIndex>>
    /\ UNCHANGED <<search, results, stats, spc>>
    /\ UNCHANGED <<chunkVars, embedVars, chatVars>>

\* ---------------------------------------------------------------- searcher.js

DEFAULT_THRESHOLD_PERCENT == 30

DefaultTopK == 5

\* A score <<num, den2>> is the real number num / sqrt(den2), den2 > 0; a
\* threshold of p percent is p / sqrt(10000).
Percent(p) == <<p, 10000>>

ZeroScore == <<0, 1>>

SignedSquare(n) == IF n < 0 THEN 0 - n * n ELSE n * n

\* a >= b for scores
ScoreGE(a, b) == SignedSquare(a[1]) * b[2] >= SignedSquare(b[1]) * a[2]

ScoreGT(a, b) == SignedSquare(a[1]) * b[2] > SignedSquare(b[1]) * a[2]

\* the sum of a[i] * b[i] for i in lo..hi, summed by halves to keep the
\* evaluation shallow on long vectors
RECURSIVE Dot(_, _, _, _)
Dot(a, b, lo, hi) ==
    IF lo > hi THEN 0
    ELSE IF lo = hi THEN a[lo] * b[lo]
    ELSE LET mid == (lo + hi) \div 2
         IN  Dot(a, b, lo, mid) + Dot(a, b, mid + 1, hi)

\* cosineSimilarity for vectors of equal length
cosineSimilarity(vecA, vecB) ==
    LET dotProduct == Dot(vecA, vecB, 1, Len(vecA))
        normA == Dot(vecA, vecA, 1, Len(vecA))
        normB == Dot(vecB, vecB, 1, Len(vecB))
    IN  IF normA * normB = 0 THEN ZeroScore
        ELSE <<dotProduct, normA * normB>>

\* the place Array.prototype.sort (stable) gives r in the sorted sequence s:
\* after every element whose score is not lower
RECURSIVE InsertByScore(_, _)
InsertByScore(s, r) ==
    IF s = <<>> THEN <<r>>
    ELSE IF ScoreGT(r.score, Head(s).score) THEN <<r>> \o s
         ELSE <<Head(s)>> \o InsertByScore(Tail(s), r)

\* SortByScore with the sort left out
SortSkipped(s) == s

\* allResults.sort((a, b) => b.score - a.score)
RECURSIVE SortByScore(_)
SortByScore(s) ==
    IF s = <<>> THEN <<>>
    ELSE InsertByScore(SortByScore(SubSeq(s, 1, Len(s) - 1)), s[Len(s)])

ScoreAll(docs, q) ==
    [i \in 1..Len(docs) |->
        [content |-> docs[i].content,
         source |-> docs[i].source,
         score |-> cosineSimilarity(q, docs[i].embedding)]]

\* DocumentsAfterSearch with the sort applied to index.documents itself
DocumentsSortedInPlace(docs, q) ==
    LET scored == [i \in 1..Len(docs) |->
                      [doc |-> docs[i], score |-> cosineSimilarity(q, docs[i].embedding)]]
        sorted == SortByScore(scored)
    IN  [i \in 1..Len(docs) |-> sorted[i].doc]

\* index.documents after a search: map builds allResults as a new array of
\* new objects, and sort, slice and filter work on that array and its
\* copies, so the documents are the ones the index had
DocumentsAfterSearch(docs, q) == docs

\* TopResults with the slice one element too long
TopResultsOneMore(allResults, k) == SubSeq(allResults, 1, Min(k + 1, Len(allResults)))

\* allResults.slice(0, topK), topK >= 0
TopResults(allResults, k) == SubSeq(allResults, 1, Min(k, Len(allResults)))

Passes(r, thresholdPercent) == ScoreGE(r.score, Percent(thresholdPercent))

\* topResults.filter(r => r.score >= threshold)
RECURSIVE FilterByThreshold(_, _)
FilterByThreshold(s, thresholdPercent) ==
    IF s = <<>> THEN <<>>
    ELSE IF Passes(Head(s), thresholdPercent)
         THEN <<Head(s)>> \o FilterByThreshold(Tail(s), thresholdPercent)
         ELSE FilterByThreshold(Tail(s), thresholdPercent)

\* SearchStats with filtered counted against all the records
SearchStatsFilteredOfAll(allResults, topResults, filteredResults, thresholdPercent) ==
    [total |-> Len(allResults),
     topK |-> Len(topResults),
     filtered |-> Len(allResults) - Len(filteredResults),
     passed |-> Len(filteredResults),
     threshold |-> thresholdPercent,
     maxScore |-> IF Len(topResults) > 0 THEN topResults[1].score
                  ELSE ZeroScore,
     minPassedScore |-> IF Len(filteredResults) > 0
                        THEN filteredResults[Len(filteredResults)].score
                        ELSE Null]

SearchStats(allResults, topResults, filteredResults, thresholdPercent) ==
    [total |-> Len(allResults),
     topK |-> Len(topResults),
     filtered |-> Len(topResults) - Len(filteredResults),
     passed |-> Len(filteredResults),
     threshold |-> thresholdPercent,
     maxScore |-> IF Len(topResults) > 0 THEN topResults[1].score
                  ELSE ZeroScore,
     minPassedScore |-> IF Len(filteredResults) > 0
                        THEN filteredResults[Len(filteredResults)].score
                        ELSE Null]

EmptyStats == [total |-> 0, filtered |-> 0, passed |-> 0]

\* the queries put to the index ix: the vectors, one of another dimension,
\* and one of the model wherever an embedding of the index has its dimension
\* (against any other index it is rejected just as the one-number query is)
Queries(ix) ==
    Vectors \cup {<<1>>}
        \cup {q \in {UnitVector(1)} :
                 \E i \in 1..Len(ix.documents) : Len(ix.documents[i].embedding) = Len(q)}

Thresholds == {0, DEFAULT_THRESHOLD_PERCENT, 80}

TopKs == 0..MaxTopK \cup {DefaultTopK}

\* searchIndex, on an index loaded from its file as the chat does
searchIndex ==
    /\ ipc = "loaded"
    /\ spc = "idle"
    /\ \E q \in Queries(index), k \in TopKs, t \in Thresholds :
          /\ search' = [queryEmbedding |-> q, topK |-> k, threshold |-> t]
          /\ IF Len(index.documents) = 0
             THEN /\ results' = <<>>
                  /\ stats' = EmptyStats
                  /\ spc' = "returned"
                  /\ UNCHANGED index
             ELSE IF \E i \in 1..Len(index.documents) :
                         Len(index.documents[i].embedding) # Len(q)
             THEN /\ spc' = "threw"
                  /\ UNCHANGED <<results, stats, index>>
             ELSE LET allResults == SortByScore(ScoreAll(index.documents, q))
                      topResults == TopResults(allResults, k)
                      filteredResults == FilterByThreshold(topResults, t)
                  IN  /\ results' = filteredResults
                      /\ stats' = SearchStats(allResults, topResults, filteredResults, t)
                      /\ spc' = "returned"
                      /\ index' = [index EXCEPT
                                      !.documents = DocumentsAfterSearch(index.documents, q)]
    /\ UNCHANGED <<inChunks, inEmbeddings, file, dirExists, dirCreated, savedIndex, ipc>>
    /\ UNCHANGED <<chunkVars, embedVars, chatVars>>

\* the caller is done with the outcome of a search (one question of the chat
\* answered); the next search can start
searchConsumed ==
    /\ spc \in {"returned", "threw"}
    /\ search' = NoSearch
    /\ results' = <<>>
    /\ stats' = EmptyStats
    /\ spc' = "idle"
    /\ UNCHANGED <<inChunks, inEmbeddings, file, dirExists, dirCreated, index, savedIndex, ipc>>
    /\ UNCHANGED <<chunkVars, embedVars, chatVars>>

\* an index file written by another tool or edited by hand: any documents
\* with distinct ids, in any order
FileDocuments ==
    {d \in SeqsUpTo([id : 0..(MaxFileDocs - 1), embedding : Vectors], MaxFileDocs) :
        /\ \A i \in 1..Len(d) : d[i].id < Len(d)
        /\ \A i, j \in 1..Len(d) : i # j => d[i].id # d[j].id}

FileOf(d) ==
    [metadata |-> [created |-> "then",
                   model |-> MODEL_NAME,
                   embeddingDimension |-> getEmbeddingDimension,
                   totalChunks |-> Len(d),
                   chunkSize |-> DefaultChunkSize,
                   overlap |-> DefaultOverlap],
     documents |-> [i \in 1..Len(d) |->
                       [id |-> d[i].id,
                        content |-> d[i].id + 1,
                        embedding |-> d[i].embedding,
                        source |-> ChunkAt(d[i].id + 1).source]]]

\* a file that parses but has no metadata
CorruptFile == [documents |-> <<>>]

\* ---------------------------------------------------------------- embedder

MaxCallers == 3
MaxPipelineCalls == 3

Callers == 1..MaxCallers

\* let embeddingPipeline = null
NoPipeline == 0

\* the module as loaded: no pipeline, nobody calling
EmbedIdle ==
    /\ embeddingPipeline = NoPipeline
    /\ started = 0
    /\ constructed = 0
    /\ pending = [c \in Callers |-> 0]
    /\ got = [c \in Callers |-> NoPipeline]
    /\ epc = [c \in Callers |-> "idle"]

\* ---------------------------------------------------------------- chat

\* the chat state as declared
ChatIdle ==
    /\ ragMode = FALSE
    /\ threshold = DEFAULT_THRESHOLD_PERCENT
    /\ conversationHistory = <<>>
    /\ answeredBy = "none"
    /\ chpc = "start"

IndexIdle ==
    /\ inChunks = <<>>
    /\ inEmbeddings = <<>>
    /\ file = NoFile
    /\ dirExists = FALSE
    /\ dirCreated = FALSE
    /\ index = NoIndex
    /\ savedIndex = NoIndex
    /\ ipc = "call"
    /\ search = NoSearch
    /\ results = <<>>
    /\ stats = EmptyStats
    /\ spc = "idle"

ChunkIdle ==
    /\ text = <<>>
    /\ chunkSize = DefaultChunkSize
    /\ overlap = DefaultOverlap
    /\ normalizedText = <<>>
    /\ startIndex = 0
    /\ endIndex = 0
    /\ chunks = <<>>
    /\ spans = <<>>
    /\ iterations = 0
    /\ cpc = "call"

\* either the indexing run (index.js) with its chunks and embeddings, or the
\* chat (chat.js) finding an index file on disk
IndexInit ==
    /\ ChunkIdle
    /\ EmbedIdle
    /\ ChatIdle
    /\ \/ /\ inEmbeddings \in SeqsUpTo(Vectors \cup {Null}, MaxDocs)
                               \cup ModelEmbeddings
          /\ \E n \in 0..MaxDocs : inChunks = [i \in 1..n |-> ChunkAt(i)]
          /\ file = NoFile
          /\ dirExists \in BOOLEAN
       \/ /\ inEmbeddings = <<>>
          /\ inChunks = <<>>
          /\ file \in {Stringify(FileOf(d)) : d \in FileDocuments} \cup {CorruptFile}
          /\ dirExists = TRUE
    /\ dirCreated = FALSE
    /\ index = NoIndex
    /\ savedIndex = NoIndex
    /\ ipc = "call"
    /\ search = NoSearch
    /\ results = <<>>
    /\ stats = EmptyStats
    /\ spc = "idle"

IndexNext == createIndex \/ saveIndex \/ loadIndex \/ searchIndex \/ searchConsumed

IndexSpec == IndexInit /\ [][IndexNext]_vars

\* ---------------------------------------------------------------- chunkText

\* "one two three four five", chunked with chunkSize 10 and overlap 3
ExampleText ==
    <<"o", "n", "e", " ", "t", "w", "o", " ", "t", "h", "r", "e", "e", " ",
      "f", "o", "u", "r", " ", "f", "i", "v", "e">>

ChunkInit ==
    /\ \/ /\ text \in Texts(MaxLen)
          /\ chunkSize \in (0 - 1)..MaxChunkSize
          /\ overlap \in (0 - 1)..MaxChunkSize
       \/ /\ text = ExampleText
          /\ chunkSize = 10
          /\ overlap = 3
    /\ normalizedText = <<>>
    /\ startIndex = 0
    /\ endIndex = 0
    /\ chunks = <<>>
    /\ spans = <<>>
    /\ iterations = 0
    /\ cpc = "call"
    /\ IndexIdle
    /\ EmbedIdle
    /\ ChatIdle

\* chunkText up to the loop: the early returns and the parameter check
ChunkTextEntry ==
    /\ cpc = "call"
    /\ LET n == Normalize(text)
       IN  /\ normalizedText' = (IF text = <<>> THEN <<>> ELSE n)
           /\ IF text = <<>> \/ Len(n) = 0
              THEN /\ cpc' = "returned"
                   /\ UNCHANGED <<chunks, spans>>
              ELSE IF Len(n) <= chunkSize
              THEN /\ cpc' = "returned"
                   /\ chunks' = <<n>>
                   /\ spans' = <<<<0, Len(n)>>>>
              ELSE IF overlap >= chunkSize
              THEN /\ cpc' = "threw"
                   /\ UNCHANGED <<chunks, spans>>
              ELSE /\ cpc' = "loop"
                   /\ UNCHANGED <<chunks, spans>>
    /\ UNCHANGED <<text, chunkSize, overlap, startIndex, endIndex, iterations>>
    /\ UNCHANGED <<indexVars, embedVars, chatVars>>

\* one iteration of the while loop of chunkText
ChunkLoopIteration ==
    /\ cpc = "loop"
    /\ startIndex < Len(normalizedText)
    /\ LET end == ChunkEnd(normalizedText, startIndex, chunkSize)
           chunk == Trim(Slice(normalizedText, startIndex, end))
           next == NextStart(normalizedText, startIndex, end, overlap)
       IN  /\ endIndex' = end
           /\ IF Len(chunk) > 0
              THEN /\ chunks' = Append(chunks, chunk)
                   /\ spans' = Append(spans, <<startIndex, end>>)
              ELSE UNCHANGED <<chunks, spans>>
           /\ startIndex' = next
           /\ cpc' = (IF next >= Len(normalizedText) THEN "returned" ELSE "loop")
    /\ iterations' = 1 - iterations
    /\ UNCHANGED <<text, chunkSize, overlap, normalizedText>>
    /\ UNCHANGED <<indexVars, embedVars, chatVars>>

ChunkNext == ChunkTextEntry \/ ChunkLoopIteration

ChunkSpec == ChunkInit /\ [][ChunkNext]_vars

\* the loop is ordinary sequential code: an iteration that can run does run
FairChunkSpec == ChunkSpec /\ WF_vars(ChunkNext)

\* ---------------------------------------------------------------- getEmbeddingPipeline

\* A caller enters getEmbeddingPipeline (from generateEmbedding or
\* generateEmbeddings). With a pipeline in place it gets that handle; with
\* none it calls pipeline() and awaits it, leaving embeddingPipeline null.
getEmbeddingPipelineCall(c) ==
    /\ epc[c] = "idle"
    /\ IF embeddingPipeline # NoPipeline
       THEN /\ got' = [got EXCEPT ![c] = embeddingPipeline]
            /\ epc' = [epc EXCEPT ![c] = "returned"]
            /\ UNCHANGED <<started, pending>>
       ELSE /\ started < MaxPipelineCalls
            /\ started' = started + 1
            /\ pending' = [pending EXCEPT ![c] = started + 1]
            /\ epc' = [epc EXCEPT ![c] = "awaiting"]
            /\ UNCHANGED got
    /\ UNCHANGED <<embeddingPipeline, constructed>>
    /\ UNCHANGED <<chunkVars, indexVars, chatVars>>

\* pipeline() resolves for caller c with a pipeline of its own: c assigns it
\* to embeddingPipeline and returns embeddingPipeline
pipelineResolves(c) ==
    /\ epc[c] = "awaiting"
    /\ constructed' = constructed + 1
    /\ embeddingPipeline' = pending[c]
    /\ got' = [got EXCEPT ![c] = pending[c]]
    /\ pending' = [pending EXCEPT ![c] = 0]
    /\ epc' = [epc EXCEPT ![c] = "returned"]
    /\ UNCHANGED started
    /\ UNCHANGED <<chunkVars, indexVars, chatVars>>

\* pipeline() rejects (the model cannot be loaded): the caller's call rejects
pipelineRejects(c) ==
    /\ epc[c] = "awaiting"
    /\ pending' = [pending EXCEPT ![c] = 0]
    /\ epc' = [epc EXCEPT ![c] = "threw"]
    /\ UNCHANGED <<embeddingPipeline, started, constructed, got>>
    /\ UNCHANGED <<chunkVars, indexVars, chatVars>>

EmbedInit ==
    /\ ChunkIdle
    /\ IndexIdle
    /\ EmbedIdle
    /\ ChatIdle

EmbedNext ==
    \E c \in Callers :
        getEmbeddingPipelineCall(c) \/ pipelineResolves(c) \/ pipelineRejects(c)

EmbedSpec == EmbedInit /\ [][EmbedNext]_vars

\* ---------------------------------------------------------------- chat session

MaxTurns == 2

\* the index files the chat can find: none, one without metadata, an empty
\* index, the indexes of the indexing run, and one with a two-number embedding
ChatFiles ==
    {NoFile, CorruptFile, Stringify(FileOf(<<>>)),
     Stringify(FileOf(<<[id |-> 0, embedding |-> <<1, 0>>]>>))}
        \cup {Stringify(BuildIndex(<<ChunkAt(1), ChunkAt(2)>>, e,
                                   DefaultChunkSize, DefaultOverlap)) :
                 e \in ModelEmbeddings}

ChatInit ==
    /\ ChunkIdle
    /\ EmbedIdle
    /\ ChatIdle
    /\ inChunks = <<>>
    /\ inEmbeddings = <<>>
    /\ file \in ChatFiles
    /\ dirExists = (file # NoFile)
    /\ dirCreated = FALSE
    /\ index = NoIndex
    /\ savedIndex = NoIndex
    /\ ipc = "call"
    /\ search = NoSearch
    /\ results = <<>>
    /\ stats = EmptyStats
    /\ spc = "idle"

\* main: index = await loadIndex(INDEX_PATH), any error caught and reported
chatStartup ==
    /\ chpc = "start"
    /\ IF LoadThrows(file)
       THEN /\ ipc' = "threw"
            /\ UNCHANGED index
       ELSE /\ ipc' = "loaded"
            /\ index' = Parse(file)
    /\ chpc' = "prompt"
    /\ UNCHANGED <<ragMode, threshold, conversationHistory, answeredBy>>
    /\ UNCHANGED <<inChunks, inEmbeddings, file, dirExists, dirCreated, savedIndex>>
    /\ UNCHANGED <<search, results, stats, spc>>
    /\ UNCHANGED <<chunkVars, embedVars>>

\* RagModeAfterRag without the test of index
RagModeAfterRagUnchecked(mode, ix) == TRUE

\* ragMode after /rag: set only when an index is loaded
RagModeAfterRag(mode, ix) == IF ix = NoIndex THEN mode ELSE TRUE

ragCommand ==
    /\ chpc = "prompt"
    /\ ragMode' = RagModeAfterRag(ragMode, index)
    /\ answeredBy' = "none"
    /\ UNCHANGED <<threshold, conversationHistory, chpc>>
    /\ UNCHANGED <<chunkVars, indexVars, embedVars>>

noragCommand ==
    /\ chpc = "prompt"
    /\ ragMode' = FALSE
    /\ answeredBy' = "none"
    /\ UNCHANGED <<threshold, conversationHistory, chpc>>
    /\ UNCHANGED <<chunkVars, indexVars, embedVars>>

IsDigit(c) == \E d \in 1..Len(DigitChars) : DigitChars[d] = c

RECURSIVE DigitPrefix(_)
DigitPrefix(t) ==
    IF t = <<>> \/ ~IsDigit(Head(t)) THEN <<>>
    ELSE <<Head(t)>> \o DigitPrefix(Tail(t))

\* parseInt(value, 10): an optional sign and the digits that follow it; NaN
\* when there are none
ParseInt(t) ==
    LET signed == t # <<>> /\ Head(t) \in {"-", "+"}
        digits == DigitPrefix(IF signed THEN Tail(t) ELSE t)
    IN  IF digits = <<>> THEN [nan |-> TRUE]
        ELSE [nan |-> FALSE,
              value |-> IF Head(t) = "-" THEN 0 - DigitsValue(digits)
                        ELSE DigitsValue(digits)]

\* parts[1] when /threshold is typed alone
NoArgument == <<"undefined">>

\* what is typed after /threshold
ThresholdArguments ==
    {NoArgument, <<"a", "b", "c">>, <<"-", "1">>, <<"0">>, <<"8", "0">>,
     <<"8", "0", "%">>, <<"1", "0", "0">>, <<"1", "0", "1">>}

\* threshold (in percent) after /threshold a
ThresholdAfter(current, a) ==
    IF a = NoArgument THEN current
    ELSE LET num == ParseInt(a)
         IN  IF num.nan THEN current
             ELSE IF num.value < 0 \/ num.value > 100 THEN current
             ELSE num.value

thresholdCommand ==
    /\ chpc = "prompt"
    /\ \E a \in ThresholdArguments : threshold' = ThresholdAfter(threshold, a)
    /\ answeredBy' = "none"
    /\ UNCHANGED <<ragMode, conversationHistory, chpc>>
    /\ UNCHANGED <<chunkVars, indexVars, embedVars>>

clearCommand ==
    /\ chpc = "prompt"
    /\ conversationHistory' = <<>>
    /\ answeredBy' = "none"
    /\ UNCHANGED <<ragMode, threshold, chpc>>
    /\ UNCHANGED <<chunkVars, indexVars, embedVars>>

\* /status, /help, an unknown command or an empty line: output only
infoCommand ==
    /\ chpc = "prompt"
    /\ answeredBy' = "none"
    /\ UNCHANGED <<ragMode, threshold, conversationHistory, chpc>>
    /\ UNCHANGED <<chunkVars, indexVars, embedVars>>

\* /quit, /exit, /q
quitCommand ==
    /\ chpc = "prompt"
    /\ chpc' = "quit"
    /\ answeredBy' = "none"
    /\ UNCHANGED <<ragMode, threshold, conversationHistory>>
    /\ UNCHANGED <<chunkVars, indexVars, embedVars>>

Questions == {"q"}

AnswerTo(q) == <<"answer", q>>

\* HistoryAfterAnswer with the user message alone, the answer never pushed
HistoryAfterAnswerUserOnly(history, q) ==
    history \o <<[role |-> "user", content |-> q]>>

\* the two pushes after an answer
HistoryAfterAnswer(history, q) ==
    history \o <<[role |-> "user", content |-> q],
                 [role |-> "assistant", content |-> AnswerTo(q)]>>

\* searchIndex accepts the embedding of a question, of the model's
\* dimension, on the index ix
QuestionSearchable(ix) ==
    \A i \in 1..Len(ix.documents) :
        Len(ix.documents[i].embedding) = getEmbeddingDimension

\* a question: answerWithRAG when ragMode and index, else answerWithoutRAG.
\* answerWithRAG embeds the question (loading the pipeline when there is
\* none), searches the index and asks for the completion; any of the three
\* can throw, and handleInput catches the error and pushes nothing.
question ==
    /\ chpc = "prompt"
    /\ Len(conversationHistory) < 2 * MaxTurns
    /\ \E q \in Questions, loads \in BOOLEAN, completes \in BOOLEAN :
          IF ragMode /\ index # NoIndex
          THEN /\ answeredBy' = "rag"
               /\ IF embeddingPipeline = NoPipeline
                  THEN /\ started < MaxPipelineCalls
                       /\ started' = started + 1
                       /\ IF loads
                          THEN /\ embeddingPipeline' = started + 1
                               /\ constructed' = constructed + 1
                          ELSE UNCHANGED <<embeddingPipeline, constructed>>
                  ELSE UNCHANGED <<embeddingPipeline, started, constructed>>
               /\ conversationHistory' =
                      IF /\ embeddingPipeline # NoPipeline \/ loads
                         /\ QuestionSearchable(index)
                         /\ completes
                      THEN HistoryAfterAnswer(conversationHistory, q)
                      ELSE conversationHistory
          ELSE /\ answeredBy' = "direct"
               /\ conversationHistory' =
                      IF completes THEN HistoryAfterAnswer(conversationHistory, q)
                      ELSE conversationHistory
               /\ UNCHANGED <<embeddingPipeline, started, constructed>>
    /\ UNCHANGED <<ragMode, threshold, chpc>>
    /\ UNCHANGED <<pending, got, epc>>
    /\ UNCHANGED <<chunkVars, indexVars>>

ChatNext ==
    \/ chatStartup
    \/ ragCommand
    \/ noragCommand
    \/ thresholdCommand
    \/ clearCommand
    \/ infoCommand
    \/ quitCommand
    \/ question

ChatSpec == ChatInit /\ [][ChatNext]_vars

\* ---------------------------------------------------------------- chunker claims

ValidParameters == chunkSize > 0 /\ overlap > 0 /\ overlap < chunkSize

HasSpace(t) == \E i \in 1..Len(t) : t[i] = " "

\* C1: with 0 < overlap < chunkSize, chunkText terminates: every call reaches
\* its return after finitely many loop iterations.
C1_ChunkTextTerminates == ValidParameters ~> (cpc = "returned")

\* C2: with 0 < overlap < chunkSize, every loop iteration computes an end
\* offset beyond the current start and moves the cursor strictly forward.
C2_CursorStrictlyIncreases ==
    [][(cpc = "loop" /\ ValidParameters)
          => (endIndex' > startIndex /\ startIndex' > startIndex)]_vars

\* C3: with invalid parameters (chunkSize <= 0, overlap <= 0 or
\* overlap >= chunkSize) chunkText never enters its loop and never returns
\* chunks: the call can only end by throwing.
C3_InvalidParametersThrow == (~ValidParameters) => cpc \in {"call", "threw"}

\* C4: with 0 < overlap < chunkSize, every chunk is non-empty and no longer
\* than chunkSize, unless the whole normalised text fits in chunkSize or the
\* text has no word boundary to cut at.
C4_ChunkLengthBounded ==
    ValidParameters =>
        \A i \in 1..Len(chunks) :
            /\ Len(chunks[i]) > 0
            /\ \/ Len(chunks[i]) <= chunkSize
               \/ Len(normalizedText) <= chunkSize
               \/ ~HasSpace(normalizedText)

\* a multi-chunk result of a text with word boundaries, one chunk of full size
C4_Witness ==
    /\ ValidParameters
    /\ cpc = "returned"
    /\ Len(chunks) >= 2
    /\ HasSpace(normalizedText)
    /\ Len(normalizedText) > chunkSize
    /\ \E i \in 1..Len(chunks) : Len(chunks[i]) = chunkSize

Covered(pos) == \E i \in 1..Len(spans) : spans[i][1] <= pos /\ pos < spans[i][2]

\* C5: with 0 < overlap < chunkSize, the returned chunks cover every
\* non-space character position of the normalised text.
C5_ChunksCoverText ==
    (ValidParameters /\ cpc = "returned") =>
        \A pos \in 0..(Len(normalizedText) - 1) :
            CharAt(normalizedText, pos) # " " => Covered(pos)

OnWordBoundary(pos) == pos = 0 \/ CharAt(normalizedText, pos - 1) = " "

\* C6: with 0 < overlap < chunkSize, when more than one chunk is returned
\* each chunk after the first starts on a word boundary strictly before the
\* end offset of the chunk before it.
C6_ConsecutiveChunksOverlap ==
    (ValidParameters /\ cpc = "returned" /\ Len(spans) > 1) =>
        \A i \in 2..Len(spans) :
            /\ spans[i][1] < spans[i - 1][2]
            /\ OnWordBoundary(spans[i][1])

\* ---------------------------------------------------------------- search and index claims

\* C7: searchIndex returns at most topK results, each with score >= threshold.
C7_AtMostTopKAboveThreshold ==
    spc = "returned" =>
        /\ Len(results) <= search.topK
        /\ \A i \in 1..Len(results) :
               ScoreGE(results[i].score, Percent(search.threshold))

\* a search that both cut the ranking at topK and filtered a candidate out
C7_Witness ==
    /\ spc = "returned"
    /\ search.topK = 2
    /\ Len(index.documents) = 3
    /\ search.threshold > 0
    /\ Len(results) = 1
    /\ stats.filtered = 1

\* the id of the record a result was made from
IdOf(r) ==
    (CHOOSE d \in {index.documents[i] : i \in 1..Len(index.documents)} :
        d.content = r.content /\ d.source = r.source).id

\* C8: results are in descending score order, and results of equal score
\* are in ascending id order, whatever the order of index.documents.
C8_RankedByScoreThenId ==
    spc = "returned" =>
        \A i, j \in 1..Len(results) :
            i < j =>
                /\ ScoreGE(results[i].score, results[j].score)
                /\ ScoreGE(results[j].score, results[i].score)
                       => IdOf(results[i]) < IdOf(results[j])

\* C9: with threshold 0 nothing is filtered: the results are the whole
\* candidate set, min(topK, number of records) long, and stats.filtered is 0.
C9_ZeroThresholdPassesAll ==
    (spc = "returned" /\ search.threshold = 0) =>
        /\ Len(results) = Min(search.topK, Len(index.documents))
        /\ stats.filtered = 0

ValidPositions == {i \in 1..Len(inEmbeddings) : inEmbeddings[i] # Null}

\* C10: an index built by createIndex has ids 0, 1, 2, ... in document
\* order, no null embedding, and totalChunks = documents.length = the number
\* of input positions whose embedding is not null.
C10_DenseIdsConsistentCount ==
    ipc = "built" =>
        /\ \A k \in 1..Len(index.documents) :
               /\ index.documents[k].id = k - 1
               /\ index.documents[k].embedding # Null
        /\ index.metadata.totalChunks = Len(index.documents)
        /\ Len(index.documents) = Cardinality(ValidPositions)

\* an index built from embeddings with a failed one before a valid one
C10_Witness ==
    /\ ipc = "built"
    /\ Len(index.documents) >= 1
    /\ \E i, j \in 1..Len(inEmbeddings) :
           i < j /\ inEmbeddings[i] = Null /\ inEmbeddings[j] # Null

\* the input position of the k-th valid embedding
ValidPosition(k) ==
    CHOOSE p \in ValidPositions : Cardinality({q \in ValidPositions : q <= p}) = k

\* C11: createIndex called with as many embeddings as chunks returns an
\* index, whatever embeddings failed, and its documents are the (content,
\* source, embedding) triples of the valid positions, in input order.
C11_ValidTriplesInOrder ==
    (ipc \in {"built", "threw"} /\ file = NoFile
        /\ Len(inChunks) = Len(inEmbeddings)) =>
        /\ ipc = "built"
        /\ Len(index.documents) = Cardinality(ValidPositions)
        /\ \A k \in 1..Len(index.documents) :
               /\ index.documents[k].content = inChunks[ValidPosition(k)].content
               /\ index.documents[k].source = inChunks[ValidPosition(k)].source
               /\ index.documents[k].embedding = inEmbeddings[ValidPosition(k)]

\* an index of two documents built around a failed embedding
C11_Witness ==
    /\ ipc = "built"
    /\ Len(inEmbeddings) = 3
    /\ inEmbeddings[2] = Null
    /\ Len(index.documents) = 2
    /\ index.documents[1].embedding # index.documents[2].embedding

\* C12: in every index createIndex returns, every embedding has the length
\* metadata.embeddingDimension declares (so all have the same length); given
\* a vector of another length createIndex fails instead of returning.
C12_DimensionMatchesEmbeddings ==
    ipc = "built" =>
        \A k \in 1..Len(index.documents) :
            Len(index.documents[k].embedding) = index.metadata.embeddingDimension

\* C13: a search of a non-empty index returns only when the query has the
\* length metadata.embeddingDimension declares; otherwise it fails and gives
\* no results.
C13_QueryDimensionChecked ==
    (spc = "returned" /\ Len(index.documents) > 0) =>
        Len(search.queryEmbedding) = index.metadata.embeddingDimension

\* C14: a search of an empty index returns, with no results and with every
\* count of the stats zero: total, candidate-set size (topK), filtered, passed.
C14_EmptyIndexZeroedStats ==
    (spc # "idle" /\ Len(index.documents) = 0) =>
        /\ spc = "returned"
        /\ results = <<>>
        /\ stats.total = 0
        /\ "topK" \in DOMAIN stats
        /\ stats.topK = 0
        /\ stats.filtered = 0
        /\ stats.passed = 0

\* the scores of all the records of the index against the query of the search
AllScores ==
    {cosineSimilarity(search.queryEmbedding, index.documents[i].embedding) :
        i \in 1..Len(index.documents)}

\* m is the highest of the scores S
IsMaxScore(m, S) == m \in S /\ \A x \in S : ScoreGE(m, x)

\* m is the lowest of the scores S
IsMinScore(m, S) == m \in S /\ \A x \in S : ScoreGE(x, m)

\* the counts, the threshold and minPassedScore of the stats agree with the
\* search and its results
StatsAgreeWithResults ==
    /\ stats.total = Len(index.documents)
    /\ stats.topK = Min(search.topK, stats.total)
    /\ stats.filtered + stats.passed = stats.topK
    /\ stats.passed = Len(results)
    /\ stats.threshold = search.threshold
    /\ IF results = <<>> THEN stats.minPassedScore = Null
       ELSE IsMinScore(stats.minPassedScore,
                       {results[i].score : i \in 1..Len(results)})

\* C15 as stated: after every search of a non-empty index the stats agree
\* with the results and maxScore is the highest score of all the records.
C15_MaxScoreOverAllRecords ==
    (spc = "returned" /\ Len(index.documents) > 0) =>
        /\ StatsAgreeWithResults
        /\ IsMaxScore(stats.maxScore, AllScores)

\* C15: after every search of a non-empty index the stats agree with the
\* results; maxScore is the highest score of all the records when the
\* candidate set is not empty, and 0 when it is empty (topK 0).
C15_StatsConsistent ==
    (spc = "returned" /\ Len(index.documents) > 0) =>
        /\ StatsAgreeWithResults
        /\ IF stats.topK > 0 THEN IsMaxScore(stats.maxScore, AllScores)
           ELSE stats.maxScore = ZeroScore

\* a search of three records with two candidates, one of them filtered out
C15_Witness ==
    /\ spc = "returned"
    /\ Len(index.documents) = 3
    /\ search.topK = 2
    /\ stats.filtered = 1
    /\ stats.passed = 1

\* C16: once saveIndex has written an index its directory exists, and
\* loadIndex of that file returns an index with the same metadata and the
\* same records as the one saved.
C16_SaveLoadRoundTrip ==
    savedIndex # NoIndex =>
        /\ dirExists
        /\ ipc \in {"saved", "loaded"}
        /\ ipc = "loaded" =>
               /\ index.metadata = savedIndex.metadata
               /\ index.documents = savedIndex.documents

\* an index with a negative component, saved into a directory that
\* saveIndex had to make, and loaded again
C16_Witness ==
    /\ ipc = "loaded"
    /\ dirCreated
    /\ Len(savedIndex.documents) = 2
    /\ savedIndex.documents[2].embedding[1] < 0

\* what searchIndex returns for the search s on the index ix
ResultsOn(ix, s) ==
    FilterByThreshold(
        TopResults(SortByScore(ScoreAll(ix.documents, s.queryEmbedding)), s.topK),
        s.threshold)

\* C17: through any sequence of searches the loaded index stays what the
\* file holds, metadata and documents, and each search returns what it
\* returns on a fresh copy of the index.
C17_SearchLeavesIndexUnchanged ==
    ipc = "loaded" =>
        /\ index.metadata = Parse(file).metadata
        /\ index.documents = Parse(file).documents
        /\ spc = "returned" => results = ResultsOn(Parse(file), search)

\* a search has ranked the second stored record before the first
C17_Witness ==
    /\ ipc = "loaded"
    /\ spc = "returned"
    /\ Len(index.documents) = 2
    /\ Len(results) = 2
    /\ results[1].content = index.documents[2].content
    /\ results[2].content = index.documents[1].content

\* the other order of the two filters: keep the ranked records that reach
\* the threshold, then take the first topK of them
ThresholdThenTopK ==
    TopResults(
        FilterByThreshold(SortByScore(ScoreAll(index.documents, search.queryEmbedding)),
                          search.threshold),
        search.topK)

\* more than topK records score at least the threshold
ManyReachThreshold ==
    Cardinality({i \in 1..Len(index.documents) :
        Passes([score |-> cosineSimilarity(search.queryEmbedding,
                                           index.documents[i].embedding)],
               search.threshold)}) > search.topK

\* C18 as stated, for the searches it names: when more than topK records
\* reach the threshold, top-K-then-threshold returns another sequence than
\* threshold-then-top-K.
C18_FilterOrderObservable ==
    (spc = "returned" /\ Len(index.documents) > 0 /\ ManyReachThreshold) =>
        results # ThresholdThenTopK

\* C18: the order of the two filters is not observable in the results:
\* every search returns the sequence threshold-then-top-K gives.
C18_FilterOrderNotObservable ==
    (spc = "returned" /\ Len(index.documents) > 0) =>
        results = ThresholdThenTopK

\* three records reach the threshold and topK is 1
C18_Witness ==
    /\ spc = "returned"
    /\ Len(index.documents) = 3
    /\ search.topK = 1
    /\ search.threshold > 0
    /\ ManyReachThreshold
    /\ Len(results) = 1

\* C19: whatever the interleaving of the callers, at most one pipeline is
\* ever built and all callers that got a handle got the same one.
C19_PipelineSingleton ==
    /\ constructed <= 1
    /\ \A c, d \in Callers :
           (epc[c] = "returned" /\ epc[d] = "returned") => got[c] = got[d]

\* C20: ragMode is true only with an index loaded at startup, and a
\* question is answered by answerWithRAG only with ragMode true and an
\* index loaded.
C20_RagNeedsLoadedIndex ==
    /\ ragMode => (index # NoIndex /\ ipc = "loaded")
    /\ answeredBy = "rag" => (ragMode /\ index # NoIndex)

\* a question answered through answerWithRAG
C20_Witness ==
    /\ ragMode
    /\ answeredBy = "rag"
    /\ Len(conversationHistory) = 2

\* h is a sequence of (user, assistant) pairs
PairedHistory(h) ==
    /\ Len(h) % 2 = 0
    /\ \A i \in 1..Len(h) :
           h[i].role = IF i % 2 = 1 THEN "user" ELSE "assistant"

\* h with the user message of a question and an assistant message after it
WithOnePairMore(h) ==
    {h \o <<[role |-> "user", content |-> q], [role |-> "assistant", content |-> a]>> :
        q \in Questions, a \in {AnswerTo(x) : x \in Questions}}

\* C21: conversationHistory is always a sequence of (user, assistant)
\* pairs, so of even length: a question either appends its user message and
\* the assistant's answer or, when answering throws, leaves the history as
\* it was; /clear empties it; startup and every other command leave it
\* unchanged.
C21_HistoryInPairs ==
    /\ PairedHistory(conversationHistory)
    /\ [][/\ PairedHistory(conversationHistory')
          /\ question =>
                 \/ conversationHistory' = conversationHistory
                 \/ conversationHistory' \in WithOnePairMore(conversationHistory)
          /\ clearCommand => conversationHistory' = <<>>
          /\ (chatStartup \/ ragCommand \/ noragCommand \/ thresholdCommand
                 \/ infoCommand \/ quitCommand) =>
                 conversationHistory' = conversationHistory]_vars

\* two questions answered, the second through answerWithRAG
C21_Witness ==
    /\ Len(conversationHistory) = 4
    /\ answeredBy = "rag"
    /\ conversationHistory[3].role = "user"
    /\ conversationHistory[4].role = "assistant"
====
